---- MODULE Spec2Model ----
(***************************************************************************)
(* A model of combine_data.py: the perf metrics parser, the directory      *)
(* scan that builds one row per CSV/.data pair, and the entry point that   *)
(* merges the new table with the output file, sorts it and writes it.      *)
(*                                                                         *)
(* A Python string is a sequence of one-character strings.  A number is a  *)
(* natural (the numerals of the model are digit strings, so float(x) and   *)
(* int(x) yield naturals).  A cell of a table is a Value: a number, a      *)
(* string, or NULL (None / NaN).  A dict is a Dict: its keys in insertion  *)
(* order and the value of each key.                                        *)
(***************************************************************************)
EXTENDS Integers, Sequences, FiniteSets, TLC

VARIABLES
    pc,          \* which call is in progress and where it stands
    perf_file,   \* parse_perf_semicolon_format: the file handed to it
    parse_ret,   \* parse_perf_semicolon_format: what it returned and reported
    directory,   \* build_combined_dataframe: the directory scanned
    todo,        \* build_combined_dataframe: files glob has not yielded yet
    rows,        \* build_combined_dataframe: rows appended so far (with the file of each)
    out,         \* __main__: the content of output_path on disk
    last,        \* __main__: the latest run (its arguments, what it found, what it printed)
    prev         \* __main__: the run before the latest one

vars == <<pc, perf_file, parse_ret, directory, todo, rows, out, last, prev>>

(***************************************************************************)
(* Bounds of the model.                                                    *)
(***************************************************************************)
MaxLines == 2
MaxFiles == 2
MaxRows == 4

(***************************************************************************)
(* Characters and strings.                                                 *)
(***************************************************************************)
DigitChars == <<"0", "1", "2", "3", "4", "5", "6", "7", "8", "9">>

Digit == {DigitChars[i] : i \in 1..10}

\* the characters of the model in code point order
Ascii ==
    <<" ", "'", "0", "1", "2", "3", "4", "5", "6", "7", "8", "9", ":", ";",
      "<", ">", "Q", "U", "_", "a", "b", "c", "d", "e", "f", "g", "h", "i",
      "j", "k", "l", "m", "n", "o", "p", "q", "r", "s", "t", "u", "v", "w",
      "x", "y", "z">>

CharRank(c) == CHOOSE i \in 1..Len(Ascii) : Ascii[i] = c

DigitVal(c) == (CHOOSE i \in 1..10 : DigitChars[i] = c) - 1

Range(s) == {s[i] : i \in 1..Len(s)}

AllDigits(s) == \A i \in 1..Len(s) : s[i] \in Digit

RECURSIVE NatOf(_)
\* the number a digit string spells (leading zeros allowed)
NatOf(s) ==
    IF s = <<>> THEN 0
    ELSE 10 * NatOf(SubSeq(s, 1, Len(s) - 1)) + DigitVal(s[Len(s)])

RECURSIVE Digits(_)
\* the decimal numeral of a natural
Digits(n) ==
    IF n < 10 THEN <<DigitChars[n + 1]>>
    ELSE Append(Digits(n \div 10), DigitChars[(n % 10) + 1])

RECURSIVE LStrip(_)
LStrip(s) == IF s # <<>> /\ Head(s) = " " THEN LStrip(Tail(s)) ELSE s

RECURSIVE RStrip(_)
RStrip(s) ==
    IF s # <<>> /\ s[Len(s)] = " " THEN RStrip(SubSeq(s, 1, Len(s) - 1)) ELSE s

\* str.strip()
Strip(s) == RStrip(LStrip(s))

\* str.replace("'", "")
RemoveQuotes(s) == SelectSeq(s, LAMBDA c : c # "'")

RECURSIVE SplitFrom(_, _, _, _)
SplitFrom(s, sep, cur, acc) ==
    IF s = <<>> THEN Append(acc, cur)
    ELSE IF Head(s) = sep THEN SplitFrom(Tail(s), sep, <<>>, Append(acc, cur))
    ELSE SplitFrom(Tail(s), sep, Append(cur, Head(s)), acc)

\* str.split(sep) for a one-character separator
Split(s, sep) == SplitFrom(s, sep, <<>>, <<>>)

(***************************************************************************)
(* Values and dicts.                                                       *)
(***************************************************************************)
Num(n) == [k |-> "num", n |-> n, s |-> <<>>]

Str(s) == [k |-> "str", n |-> 0, s |-> s]

NULL == [k |-> "null", n |-> 0, s |-> <<>>]

EmptyDict == [keys |-> <<>>, val |-> [x \in {} |-> NULL]]

\* d[key] = v: a key already present keeps its position
DictSet(d, key, v) ==
    IF key \in Range(d.keys)
    THEN [d EXCEPT !.val = [x \in DOMAIN d.val |-> IF x = key THEN v ELSE d.val[x]]]
    ELSE [keys |-> Append(d.keys, key),
          val |-> [x \in DOMAIN d.val \cup {key} |-> IF x = key THEN v ELSE d.val[x]]]

RECURSIVE DictUpdateFrom(_, _, _)
DictUpdateFrom(d, e, i) ==
    IF i > Len(e.keys) THEN d
    ELSE DictUpdateFrom(DictSet(d, e.keys[i], e.val[e.keys[i]]), e, i + 1)

\* d.update(e)
DictUpdate(d, e) == DictUpdateFrom(d, e, 1)

\* float(s) of a string: the number, or ValueError
FloatOfStr(s) ==
    LET t == Strip(s)
    IN  IF t # <<>> /\ AllDigits(t) THEN [ok |-> TRUE, v |-> Num(NatOf(t))]
        ELSE [ok |-> FALSE, v |-> NULL]

(***************************************************************************)
(* parse_perf_semicolon_format.  A metrics file is its lines and where     *)
(* reading it fails: failAt = -1 when it reads to the end, failAt = n when *)
(* open() or the iteration raises after n lines have been processed.       *)
(***************************************************************************)
NotSupported ==
    <<"<", "n", "o", "t", " ", "s", "u", "p", "p", "o", "r", "t", "e", "d", ">">>

CleanParts(line) ==
    [i \in 1..Len(Split(line, ";")) |-> RemoveQuotes(Strip(Split(line, ";")[i]))]

MetricValue(val_str) ==
    IF val_str = NotSupported \/ val_str = <<>> THEN NULL
    ELSE IF FloatOfStr(val_str).ok THEN FloatOfStr(val_str).v
    ELSE NULL

\* ParseLine keeping the first value of a name instead of the last
ParseLine_FirstWins(metrics, line) ==
    LET parts == CleanParts(line)
    IN  IF Len(parts) >= 3 /\ parts[3] \notin Range(metrics.keys)
        THEN DictSet(metrics, parts[3], MetricValue(parts[1]))
        ELSE metrics

\* the body of "for line in f"
ParseLine(metrics, line) ==
    LET parts == CleanParts(line)
    IN  IF Len(parts) >= 3 THEN DictSet(metrics, parts[3], MetricValue(parts[1]))
        ELSE metrics

RECURSIVE ParseLines(_, _)
ParseLines(lines, n) ==
    IF n = 0 THEN EmptyDict
    ELSE ParseLine(ParseLines(lines, n - 1), lines[n])

parse_perf_semicolon_format(f) ==
    [metrics |-> ParseLines(f.lines, IF f.failAt < 0 THEN Len(f.lines) ELSE f.failAt),
     reported |-> f.failAt >= 0,
     raised |-> FALSE]

(***************************************************************************)
(* build_combined_dataframe.  A directory is the final component of its    *)
(* resolved path and the *.csv files in it.  A file is its stem, what      *)
(* pd.read_csv(csv_file, header=None, skipinitialspace=True, skiprows=1)   *)
(* yields for it (an exception, or the data rows as cells), and its        *)
(* companion .data file (absent, or a metrics file as above).              *)
(***************************************************************************)
ColMachine == <<"m", "a", "c", "h", "i", "n", "e">>

ColCompiler == <<"c", "o", "m", "p", "i", "l", "e", "r">>

ColRepetition == <<"r", "e", "p", "e", "t", "i", "t", "i", "o", "n">>

ColQuery == <<"q", "u", "e", "r", "y">>

ColEngine == <<"e", "n", "g", "i", "n", "e">>

ColThreads == <<"t", "h", "r", "e", "a", "d", "s">>

ColQueryLabel == <<"q", "u", "e", "r", "y", "_", "l", "a", "b", "e", "l">>

ColTime == <<"t", "i", "m", "e">>

Vectorwise == <<"v", "e", "c", "t", "o", "r", "w", "i", "s", "e">>

Hyper == <<"h", "y", "p", "e", "r">>

RECURSIVE DigitsEnd(_, _)
\* where the run of digits starting at s[i] ends (i itself when there is none)
DigitsEnd(s, i) ==
    IF i <= Len(s) /\ s[i] \in Digit THEN DigitsEnd(s, i + 1) ELSE i

\* filename_re.match(stem) for r"r(\d+)_(\d+)([hv])_t(\d+)": the pattern is
\* tried at the start of the stem and may end anywhere in it
filename_re_match(stem) ==
    LET n == Len(stem)
        b == DigitsEnd(stem, 2)
        c == DigitsEnd(stem, b + 1)
        d == DigitsEnd(stem, c + 3)
        ok == /\ n >= 1 /\ stem[1] = "r"
              /\ b > 2 /\ b <= n /\ stem[b] = "_"
              /\ c > b + 1 /\ c <= n /\ stem[c] \in {"h", "v"}
              /\ c + 2 <= n /\ stem[c + 1] = "_" /\ stem[c + 2] = "t"
              /\ d > c + 3
    IN  IF ok
        THEN [ok |-> TRUE, rep |-> SubSeq(stem, 2, b - 1), q_num |-> SubSeq(stem, b + 1, c - 1),
              eng |-> stem[c], threads |-> SubSeq(stem, c + 3, d - 1), end |-> d - 1]
        ELSE [ok |-> FALSE, rep |-> <<>>, q_num |-> <<>>, eng |-> "", threads |-> <<>>, end |-> 0]

\* float(x) of a cell: a number as it is, NaN as NaN, a string parsed
FloatOf(v) ==
    IF v.k = "str" THEN FloatOfStr(v.s) ELSE [ok |-> TRUE, v |-> v]

\* str(x) of a cell
StrOf(v) ==
    IF v.k = "num" THEN Digits(v.n)
    ELSE IF v.k = "str" THEN v.s
    ELSE <<"n", "a", "n">>

\* the try/except around pd.read_csv: execution_time and query_label
CsvFields(csv) ==
    LET none == [execution_time |-> NULL, query_label |-> NULL]
    IN  IF csv.raises THEN none
        ELSE IF csv.table = <<>> THEN none
        ELSE IF Len(csv.table[1]) < 2 THEN none
        ELSE IF ~FloatOf(csv.table[1][2]).ok THEN none
        ELSE [execution_time |-> FloatOf(csv.table[1][2]).v,
              query_label |-> Str(Strip(StrOf(csv.table[1][1])))]

\* perf_data of one file
PerfData(f) ==
    IF f.data.exists THEN parse_perf_semicolon_format(f.data).metrics ELSE EmptyDict

RECURSIVE DictOf(_, _)
\* a dict literal: keys in the order written
DictOf(ks, vs) ==
    IF ks = <<>> THEN EmptyDict
    ELSE DictSet(DictOf(SubSeq(ks, 1, Len(ks) - 1), SubSeq(vs, 1, Len(vs) - 1)),
                 ks[Len(ks)], vs[Len(vs)])

\* row.update(perf_data)
SpreadMetrics(row, perf_data) == DictUpdate(row, perf_data)

\* the row of one matching file
RowOf(pieces, f) ==
    LET m == filename_re_match(f.stem)
        c == CsvFields(f.csv)
        row == DictOf(
            <<ColMachine, ColCompiler, ColRepetition, ColQuery, ColEngine, ColThreads,
              ColQueryLabel, ColTime>>,
            <<Str(pieces[1]), Str(pieces[2]), Num(NatOf(m.rep)), Num(NatOf(m.q_num)),
              Str(IF m.eng = "v" THEN Vectorwise ELSE Hyper), Num(NatOf(m.threads)),
              c.query_label, c.execution_time>>)
    IN  SpreadMetrics(row, PerfData(f))

\* one pass of "for csv_file in base_path.glob('*.csv')" over file f
LoopBody(pieces, rws, f) ==
    IF ~filename_re_match(f.stem).ok THEN rws
    ELSE Append(rws, [file |-> f, row |-> RowOf(pieces, f)])

Pieces(dir) == Split(dir.name, "_")

RECURSIVE ColumnsOf(_)
\* pd.DataFrame(rows): the columns are the keys in order of first appearance
ColumnsOf(dicts) ==
    IF dicts = <<>> THEN <<>>
    ELSE LET before == ColumnsOf(SubSeq(dicts, 1, Len(dicts) - 1))
         IN  before \o SelectSeq(dicts[Len(dicts)].keys, LAMBDA c : c \notin Range(before))

\* a row over the columns cols: a missing cell is NULL
Reindex(val, cols) == [c \in Range(cols) |-> IF c \in DOMAIN val THEN val[c] ELSE NULL]

DataFrame(dicts) ==
    [cols |-> ColumnsOf(dicts),
     rows |-> [i \in 1..Len(dicts) |-> Reindex(dicts[i].val, ColumnsOf(dicts))]]

RECURSIVE BuildRows(_, _, _)
\* the rows list after glob has yielded order[1..n]
BuildRows(pieces, order, n) ==
    IF n = 0 THEN <<>>
    ELSE LoopBody(pieces, BuildRows(pieces, order, n - 1), order[n])

\* build_combined_dataframe(directory) when glob lists the files as order
build_combined_dataframe(dir, order) ==
    LET rws == BuildRows(Pieces(dir), order, Len(order))
    IN  DataFrame([i \in 1..Len(rws) |-> rws[i].row])

(***************************************************************************)
(* __main__: the output file and the pandas calls on it.  A file on disk   *)
(* is absent, empty (no bytes), or a CSV text: a header line and the lines *)
(* below it, each a sequence of cell texts.                                *)
(***************************************************************************)
AbsentFile == [kind |-> "absent", header |-> <<>>, body |-> <<>>]

EmptyFile == [kind |-> "empty", header |-> <<>>, body |-> <<>>]

\* how to_csv spells a cell
CellText(v) ==
    IF v.k = "num" THEN Digits(v.n)
    ELSE IF v.k = "str" THEN v.s
    ELSE <<>>

\* final_df.to_csv(output_path, index=False)
to_csv(df) ==
    [kind |-> "csv",
     header |-> df.cols,
     body |-> [i \in 1..Len(df.rows) |->
                  [j \in 1..Len(df.cols) |-> CellText(df.rows[i][df.cols[j]])]]]

Unnamed == <<"U", "n", "n", "a", "m", "e", "d", ":", " ">>

\* read_csv names a column whose header field is empty after its position
HeaderName(header, j) ==
    IF header[j] = <<>> THEN Unnamed \o Digits(j - 1) ELSE header[j]

\* cell texts read_csv takes for a missing value (the empty field, and nan, which
\* is how str() spells a missing label)
NaText == {<<>>, <<"n", "a", "n">>}

\* read_csv infers a numeric column when every cell present is a numeral
NumericColumn(file, j) ==
    /\ \A i \in 1..Len(file.body) :
          file.body[i][j] \in NaText \/ AllDigits(file.body[i][j])
    /\ \E i \in 1..Len(file.body) : file.body[i][j] \notin NaText

ReadCell(file, i, j) ==
    IF file.body[i][j] \in NaText THEN NULL
    ELSE IF NumericColumn(file, j) THEN Num(NatOf(file.body[i][j]))
    ELSE Str(file.body[i][j])

\* pd.read_csv(output_path) of a CSV text
read_csv(file) ==
    LET cols == [j \in 1..Len(file.header) |-> HeaderName(file.header, j)]
    IN  [cols |-> cols,
         rows |-> [i \in 1..Len(file.body) |->
                      [c \in Range(cols) |->
                          ReadCell(file, i, CHOOSE j \in 1..Len(cols) : cols[j] = c)]]]

\* pd.concat([a, b], ignore_index=True): rows of a then rows of b, columns unioned
concat(a, b) ==
    LET cols == a.cols \o SelectSeq(b.cols, LAMBDA c : c \notin Range(a.cols))
    IN  [cols |-> cols,
         rows |-> [i \in 1..(Len(a.rows) + Len(b.rows)) |->
                      IF i <= Len(a.rows) THEN Reindex(a.rows[i], cols)
                      ELSE Reindex(b.rows[i - Len(a.rows)], cols)]]

RECURSIVE StrLess(_, _)
\* string comparison by code points
StrLess(a, b) ==
    IF b = <<>> THEN FALSE
    ELSE IF a = <<>> THEN TRUE
    ELSE IF Head(a) # Head(b) THEN CharRank(Head(a)) < CharRank(Head(b))
    ELSE StrLess(Tail(a), Tail(b))

KindRank(v) == IF v.k = "num" THEN 0 ELSE IF v.k = "str" THEN 1 ELSE 2

\* the order sort_values puts the cells of a key column in: numbers by value,
\* strings by code point, missing values last (na_position='last'); a number
\* sorts before a string (no directory of MainDirs mixes the two in one key column)
ValueLess(a, b) ==
    IF KindRank(a) # KindRank(b) THEN KindRank(a) < KindRank(b)
    ELSE IF a.k = "num" THEN a.n < b.n
    ELSE IF a.k = "str" THEN StrLess(a.s, b.s)
    ELSE FALSE

\* the sort key with query put before machine
SortKey_QueryFirst == <<ColQuery, ColMachine, ColThreads, ColRepetition>>

SortKey == <<ColMachine, ColQuery, ColThreads, ColRepetition>>

RECURSIVE KeyLessFrom(_, _, _)
KeyLessFrom(r, q, i) ==
    IF i > Len(SortKey) THEN FALSE
    ELSE IF ValueLess(r[SortKey[i]], q[SortKey[i]]) THEN TRUE
    ELSE IF ValueLess(q[SortKey[i]], r[SortKey[i]]) THEN FALSE
    ELSE KeyLessFrom(r, q, i + 1)

\* row r sorts strictly before row q
KeyLess(r, q) == KeyLessFrom(r, q, 1)

\* r goes after every row that does not sort after it
InsertRow(sorted, r) ==
    LET n == Cardinality({i \in 1..Len(sorted) : ~KeyLess(r, sorted[i])})
    IN  SubSeq(sorted, 1, n) \o <<r>> \o SubSeq(sorted, n + 1, Len(sorted))

RECURSIVE SortRows(_)
SortRows(rs) ==
    IF rs = <<>> THEN <<>>
    ELSE InsertRow(SortRows(SubSeq(rs, 1, Len(rs) - 1)), rs[Len(rs)])

\* df.sort_values(by=['machine', 'query', 'threads', 'repetition']): stable
sort_values(df) == [cols |-> df.cols, rows |-> SortRows(df.rows)]

\* FinalDf appending whenever the output file exists, whatever the flag
FinalDf_AlwaysAppends(outp, new_df, append) ==
    IF outp.kind # "absent"
    THEN IF outp.kind = "empty" THEN new_df
         ELSE concat(read_csv(outp), new_df)
    ELSE new_df

\* the table to write: the new one, or the existing one with the new one appended
FinalDf(outp, new_df, append) ==
    IF append /\ outp.kind # "absent"
    THEN IF outp.kind = "empty" THEN new_df
         ELSE concat(read_csv(outp), new_df)
    ELSE new_df

\* main writing the (empty) new table when nothing was found and -a is not given
main_WritesEmptyTable(outp, new_df, append) ==
    IF new_df.rows # <<>> \/ ~append
    THEN LET final_df == CHOOSE df \in {FinalDf(outp, new_df, append)} : TRUE
         IN  [out |-> to_csv(sort_values(final_df)),
              msg |-> IF new_df.rows # <<>> THEN "Success!" ELSE "No valid file pairs found.",
              total |-> Len(final_df.rows)]
    ELSE [out |-> outp, msg |-> "No valid file pairs found.", total |-> 0]

\* the body of __main__ after build_combined_dataframe: the file left on disk
\* and what is printed
main(outp, new_df, append) ==
    IF new_df.rows # <<>>
    THEN LET final_df == CHOOSE df \in {FinalDf(outp, new_df, append)} : TRUE
         IN  [out |-> to_csv(sort_values(final_df)),
              msg |-> "Success!",
              total |-> Len(final_df.rows)]
    ELSE [out |-> outp, msg |-> "No valid file pairs found.", total |-> 0]

(***************************************************************************)
(* Inputs: the metrics files, CSV files and directories the model runs on. *)
(***************************************************************************)
Semi == <<";">>

Unit == <<"n", "s">>

MetricLine(v, name) == v \o Semi \o Unit \o Semi \o name

\* raw value fields: 1, '2', ' 3', <not supported>, the empty field, x
ValPool ==
    {<<"1">>, <<"'", "2", "'">>, <<"'", " ", "3", "'">>, NotSupported, <<>>, <<"x">>}

\* raw name fields: c, 'c', ' i' (quoted, with a blank inside the quotes)
NamePool == {<<"c">>, <<"'", "c", "'">>, <<"'", " ", "i", "'">>}

\* lines of three fields, and lines of two, four and no fields
LinePool ==
    {MetricLine(v, n) : v \in ValPool, n \in NamePool}
        \cup {<<"1", ";", "c">>, MetricLine(<<"1">>, <<"c">>) \o <<";", "9">>, <<>>}

DataFile(lines, failAt) == [exists |-> TRUE, lines |-> lines, failAt |-> failAt]

NoData == [exists |-> FALSE, lines |-> <<>>, failAt |-> -1]

CsvRaises == [raises |-> TRUE, table |-> <<>>]

CsvTable(t) == [raises |-> FALSE, table |-> t]

Q5 == <<"Q", "5">>

\* Q5,12 then Q6,99
CsvTwoRows == CsvTable(<<<<Str(Q5), Num(12)>>, <<Str(<<"Q", "6">>), Num(99)>>>>)

\* 5, 7 with the time read as the string " 7"
CsvNumLabel == CsvTable(<<<<Num(5), Str(<<" ", "7">>)>>>>)

CsvBadTime == CsvTable(<<<<Str(Q5), Str(<<"x">>)>>>>)

CsvOneCol == CsvTable(<<<<Str(Q5)>>>>)

CsvNaNTime == CsvTable(<<<<Str(Q5), NULL>>>>)

CsvEmpty == CsvTable(<<>>)

File(stem, csv, data) == [stem |-> stem, csv |-> csv, data |-> data]

DataC == DataFile(<<MetricLine(<<"7">>, <<"c">>)>>, -1)

DataI == DataFile(<<MetricLine(<<"8">>, <<"'", " ", "i", "'">>)>>, -1)

DataEmptyName == DataFile(<<MetricLine(<<"1">>, <<>>)>>, -1)

DataThreads == DataFile(<<MetricLine(<<"9">>, ColThreads)>>, -1)

DataThreadsNull == DataFile(<<MetricLine(NotSupported, ColThreads)>>, -1)

DataMachineTime ==
    DataFile(<<MetricLine(NotSupported, ColMachine), MetricLine(<<"3">>, ColTime)>>, -1)

DataOpenFails == DataFile(<<MetricLine(<<"7">>, <<"c">>)>>, 0)

DataReadFails ==
    DataFile(<<MetricLine(<<"7">>, <<"c">>), MetricLine(<<"8">>, <<"'", " ", "i", "'">>)>>, 1)

ScanFilePool ==
    {File(<<"r", "1", "_", "5", "h", "_", "t", "4">>, CsvTwoRows, DataC),
     File(<<"r", "1", "_", "5", "v", "_", "t", "4">>, CsvNumLabel, DataI),
     File(<<"r", "2", "_", "5", "h", "_", "t", "4">>, CsvRaises, NoData),
     File(<<"r", "0", "1", "_", "1", "0", "v", "_", "t", "2">>, CsvBadTime, DataOpenFails),
     File(<<"r", "1", "_", "5", "h", "_", "t", "4", "x">>, CsvTwoRows, NoData),
     File(<<"x", "r", "1", "_", "5", "h", "_", "t", "4">>, CsvTwoRows, DataC),
     File(<<"r", "u", "n", "_", "1", "4", "_", "t", "8">>, CsvTwoRows, NoData),
     File(<<"r", "1", "_", "5", "x", "_", "t", "4">>, CsvTwoRows, NoData),
     File(<<"r", "1", "_", "9", "h", "_", "t">>, CsvTwoRows, NoData),
     File(<<"r", "3", "_", "9", "h", "_", "t", "8">>, CsvOneCol, DataThreads),
     File(<<"r", "4", "_", "9", "v", "_", "t", "8">>, CsvNaNTime, DataReadFails),
     File(<<"r", "5", "_", "9", "h", "_", "t", "1">>, CsvEmpty, DataMachineTime),
     File(<<"r", "6", "_", "1", "h", "_", "t", "1">>, CsvTwoRows, DataEmptyName)}

\* m1_gcc9 and m2_cl_x
DirNames ==
    {<<"m", "1", "_", "g", "c", "c", "9">>, <<"m", "2", "_", "c", "l", "_", "x">>}

(***************************************************************************)
(* The calls as state machines.                                            *)
(***************************************************************************)
NoRet == [metrics |-> EmptyDict, reported |-> FALSE, raised |-> FALSE]

NoDir == [name |-> <<>>, files |-> {}]

NoRun ==
    [ran |-> FALSE, dir |-> <<>>, append |-> FALSE, before |-> AbsentFile,
     new_df |-> [cols |-> <<>>, rows |-> <<>>], found |-> 0, msg |-> "", total |-> 0]

NoPrev == [ran |-> FALSE, dir |-> <<>>, append |-> FALSE, found |-> 0]

IdleParse == perf_file = NoData /\ parse_ret = NoRet

IdleScan == directory = NoDir /\ todo = {} /\ rows = <<>>

IdleMain == out = AbsentFile /\ last = NoRun /\ prev = NoPrev

\* parse_perf_semicolon_format(perf_file)
InitParse ==
    /\ pc = "parse"
    /\ \E n \in 0..MaxLines :
        \E lines \in [1..n -> LinePool], failAt \in (-1)..n :
            perf_file = DataFile(lines, failAt)
    /\ parse_ret = NoRet
    /\ IdleScan /\ IdleMain

ParseCall ==
    /\ pc = "parse"
    /\ parse_ret' = parse_perf_semicolon_format(perf_file)
    /\ pc' = "parsed"
    /\ UNCHANGED <<perf_file, directory, todo, rows, out, last, prev>>

NextParse == ParseCall

SpecParse == InitParse /\ [][NextParse]_vars

\* build_combined_dataframe(directory)
InitScan ==
    /\ pc = "scan"
    /\ \E name \in DirNames, files \in SUBSET ScanFilePool :
        /\ Cardinality(files) <= MaxFiles
        /\ \A f, g \in files : f.stem = g.stem => f = g
        /\ directory = [name |-> name, files |-> files]
    /\ todo = directory.files
    /\ rows = <<>>
    /\ IdleParse /\ IdleMain

\* glob yields the next file, in any order
ScanFile ==
    /\ pc = "scan"
    /\ \E f \in todo :
        /\ rows' = LoopBody(Pieces(directory), rows, f)
        /\ todo' = todo \ {f}
    /\ UNCHANGED <<pc, perf_file, parse_ret, directory, out, last, prev>>

ScanReturn ==
    /\ pc = "scan"
    /\ todo = {}
    /\ pc' = "returned"
    /\ UNCHANGED <<perf_file, parse_ret, directory, todo, rows, out, last, prev>>

NextScan == ScanFile \/ ScanReturn

SpecScan == InitScan /\ [][NextScan]_vars

\* the directories the tool is pointed at: m1_gcc9, m2_cl_x, m1_cl, m1_icc,
\* m0_gcc9 (nothing matches) and m3_gcc9
MainDirs ==
    {[name |-> <<"m", "1", "_", "g", "c", "c", "9">>,
      files |-> {File(<<"r", "1", "_", "5", "h", "_", "t", "4">>, CsvTwoRows, DataC),
                 File(<<"r", "1", "_", "5", "v", "_", "t", "4">>, CsvNumLabel, DataI)}],
     [name |-> <<"m", "2", "_", "c", "l", "_", "x">>,
      files |-> {File(<<"r", "2", "_", "5", "h", "_", "t", "4">>, CsvRaises, NoData),
                 File(<<"r", "2", "_", "5", "v", "_", "t", "4">>, CsvTwoRows, NoData)}],
     [name |-> <<"m", "1", "_", "c", "l">>,
      files |-> {File(<<"r", "0", "1", "_", "1", "0", "v", "_", "t", "2">>, CsvBadTime,
                      DataOpenFails)}],
     [name |-> <<"m", "1", "_", "i", "c", "c">>,
      files |-> {File(<<"r", "3", "_", "9", "h", "_", "t", "8">>, CsvOneCol,
                      DataThreadsNull)}],
     [name |-> <<"m", "0", "_", "g", "c", "c", "9">>,
      files |-> {File(<<"r", "u", "n", "_", "1", "4", "_", "t", "8">>, CsvTwoRows, NoData),
                 File(<<"x", "r", "1", "_", "5", "h", "_", "t", "4">>, CsvTwoRows, DataC)}],
     [name |-> <<"m", "3", "_", "g", "c", "c", "9">>,
      files |-> {File(<<"r", "6", "_", "1", "h", "_", "t", "1">>, CsvTwoRows,
                      DataEmptyName)}]}

\* the orders in which glob may list the files of a directory
Listings(dir) ==
    {o \in [1..Cardinality(dir.files) -> dir.files] :
        \A i, j \in DOMAIN o : o[i] = o[j] => i = j}

\* python combine_data.py dir [-a], starting with or without an output file
Init ==
    /\ pc = "main"
    /\ out \in {AbsentFile, EmptyFile}
    /\ last = NoRun
    /\ prev = NoPrev
    /\ IdleParse /\ IdleScan

Run ==
    /\ pc = "main"
    /\ \E dir \in MainDirs, append \in BOOLEAN :
        \E order \in Listings(dir) :
          \E new_df \in {build_combined_dataframe(dir, order)} :
            \E res \in {main(out, new_df, append)} :
                /\ res.total <= MaxRows
                /\ out' = res.out
                /\ last' = [ran |-> TRUE, dir |-> dir.name, append |-> append,
                             before |-> out, new_df |-> new_df,
                             found |-> Len(new_df.rows),
                             msg |-> res.msg, total |-> res.total]
                /\ prev' = [ran |-> last.ran, dir |-> last.dir, append |-> last.append,
                             found |-> last.found]
    /\ UNCHANGED <<pc, perf_file, parse_ret, directory, todo, rows>>

Next == Run

Spec == Init /\ [][Next]_vars

(***************************************************************************)
(* Properties of parse_perf_semicolon_format (specification SpecParse).     *)
(***************************************************************************)
Field(line, j) == Split(line, ";")[j]

\* the text between the first and the last non-blank character, quotes left out
Cleaned(raw) ==
    LET inked == {i \in 1..Len(raw) : raw[i] # " "}
    IN  IF inked = {} THEN <<>>
        ELSE LET lo == CHOOSE i \in inked : \A j \in inked : i <= j
                 hi == CHOOSE i \in inked : \A j \in inked : j <= i
             IN  SelectSeq(SubSeq(raw, lo, hi), LAMBDA c : c # "'")

LongLines(lines) == {i \in 1..Len(lines) : Len(Split(lines[i], ";")) >= 3}

LastLineNaming(lines, name) ==
    CHOOSE i \in LongLines(lines) :
        /\ Cleaned(Field(lines[i], 3)) = name
        /\ \A j \in LongLines(lines) : Cleaned(Field(lines[j], 3)) = name => j <= i

IsNumber(t) == Strip(t) # <<>> /\ AllDigits(Strip(t))

ExpectedValue(raw) ==
    IF Cleaned(raw) = NotSupported \/ Cleaned(raw) = <<>> \/ ~IsNumber(Cleaned(raw))
    THEN NULL
    ELSE Num(NatOf(Strip(Cleaned(raw))))

\* C8: for a readable metrics file the returned mapping has exactly the cleaned
\* third fields of the lines of three or more fields as keys, and each key has
\* the value of the last line naming it: absent for '<not supported>', an empty
\* or a non-numeric first field, the number otherwise.  Nothing is raised.
C8_ParseEqualsReference ==
    (pc = "parsed" /\ perf_file.failAt < 0) =>
        LET m == parse_ret.metrics
            lines == perf_file.lines
            names == {Cleaned(Field(lines[i], 3)) : i \in LongLines(lines)}
        IN  /\ ~parse_ret.raised
            /\ Range(m.keys) = names
            /\ DOMAIN m.val = names
            /\ Len(m.keys) = Cardinality(names)
            /\ \A name \in names :
                  m.val[name] = ExpectedValue(Field(lines[LastLineNaming(lines, name)], 1))

\* two lines name the same metric with different values, and the file was parsed
C8_Witness ==
    /\ pc = "parsed" /\ perf_file.failAt < 0
    /\ Len(perf_file.lines) = 2
    /\ LongLines(perf_file.lines) = {1, 2}
    /\ Cleaned(Field(perf_file.lines[1], 3)) = Cleaned(Field(perf_file.lines[2], 3))
    /\ Field(perf_file.lines[1], 3) # Field(perf_file.lines[2], 3)
    /\ ExpectedValue(Field(perf_file.lines[1], 1)) = NULL
    /\ ExpectedValue(Field(perf_file.lines[2], 1)) # NULL

\* when open() or the first read fails, the mapping returned is empty
OpenFailureGivesEmptyMapping ==
    (pc = "parsed" /\ perf_file.failAt = 0) =>
        parse_ret.reported /\ parse_ret.metrics = EmptyDict

\* C7 (as claimed): when opening or reading the metrics file fails, at open or
\* after any number of lines, the error is reported, nothing is raised and the
\* mapping returned is empty.
C7_FailureGivesEmptyMapping ==
    (pc = "parsed" /\ perf_file.failAt >= 0) =>
        /\ parse_ret.reported
        /\ ~parse_ret.raised
        /\ parse_ret.metrics = EmptyDict

(***************************************************************************)
(* Properties of build_combined_dataframe (specification SpecScan).        *)
(***************************************************************************)
\* the stem is r<digits>_<digits>[hv]_t<digits> and nothing more
HasForm(s) ==
    \E b \in 1..Len(s), c \in 1..Len(s) :
        /\ s[1] = "r"
        /\ b >= 3 /\ AllDigits(SubSeq(s, 2, b - 1)) /\ s[b] = "_"
        /\ c >= b + 2 /\ AllDigits(SubSeq(s, b + 1, c - 1)) /\ s[c] \in {"h", "v"}
        /\ c + 3 <= Len(s) /\ s[c + 1] = "_" /\ s[c + 2] = "t"
        /\ AllDigits(SubSeq(s, c + 3, Len(s)))

RowsOfFile(f) == {i \in DOMAIN rows : rows[i].file = f}

\* C5 (as claimed): a .csv file of the directory contributes a row if and only if
\* its stem has the form r<digits>_<digits>[hv]_t<digits>.
C5_RowIffNameHasForm ==
    pc = "returned" =>
        \A f \in directory.files : (RowsOfFile(f) # {}) <=> HasForm(f.stem)

\* what the scan does: a file contributes a row exactly when a prefix of its stem
\* has the form
RowIffPrefixHasForm ==
    pc = "returned" =>
        \A f \in directory.files :
            (RowsOfFile(f) # {}) <=> \E n \in 1..Len(f.stem) : HasForm(SubSeq(f.stem, 1, n))

\* C6 (as claimed): in every row machine and compiler are the first two segments
\* of the directory name, and repetition, query, engine and threads are the
\* values spelled in the file name, whatever the companion metrics file holds.
C6_RunRowInvariant ==
    \A i \in DOMAIN rows :
        LET r == rows[i].row.val
            m == filename_re_match(rows[i].file.stem)
        IN  /\ r[ColMachine] = Str(Split(directory.name, "_")[1])
            /\ r[ColCompiler] = Str(Split(directory.name, "_")[2])
            /\ r[ColRepetition] = Num(NatOf(m.rep))
            /\ r[ColQuery] = Num(NatOf(m.q_num))
            /\ r[ColEngine] = Str(IF m.eng = "v" THEN Vectorwise ELSE Hyper)
            /\ r[ColThreads] = Num(NatOf(m.threads))

\* reading the CSV, or converting one of the first two cells of its first data
\* row, fails, or there is no data row
CsvFails(csv) ==
    \/ csv.raises
    \/ csv.table = <<>>
    \/ Len(csv.table[1]) < 2
    \/ csv.table[1][2].k = "str" /\ ~IsNumber(csv.table[1][2].s)

\* C9 (as claimed): when the CSV has no data row or reading or converting fails,
\* time and query_label of the emitted row are both absent; otherwise both come
\* from the first data row, the label as the trimmed string of column 0 and the
\* time as the number in column 1.
C9_TimeAndLabelOfRow ==
    \A i \in DOMAIN rows :
        LET r == rows[i].row.val
            csv == rows[i].file.csv
        IN  IF CsvFails(csv)
            THEN r[ColTime] = NULL /\ r[ColQueryLabel] = NULL
            ELSE /\ r[ColQueryLabel] = Str(Strip(StrOf(csv.table[1][1])))
                 /\ r[ColTime] = FloatOf(csv.table[1][2]).v

\* the claim of C9 for the rows whose metrics name neither time nor query_label
TimeAndLabelUnlessOverwritten ==
    \A i \in DOMAIN rows :
        LET r == rows[i].row.val
            csv == rows[i].file.csv
            names == Range(PerfData(rows[i].file).keys)
        IN  (ColTime \notin names /\ ColQueryLabel \notin names) =>
                IF CsvFails(csv)
                THEN r[ColTime] = NULL /\ r[ColQueryLabel] = NULL
                ELSE /\ r[ColQueryLabel] = Str(Strip(StrOf(csv.table[1][1])))
                     /\ r[ColTime] = FloatOf(csv.table[1][2]).v

\* the claim of C10 counting the files filename_re.match accepts
OneRowPerAcceptedFile ==
    pc = "returned" =>
        /\ \A f \in directory.files :
              Cardinality(RowsOfFile(f)) = IF filename_re_match(f.stem).ok THEN 1 ELSE 0
        /\ Len(rows) = Cardinality({f \in directory.files : filename_re_match(f.stem).ok})

\* C10 (as claimed): a scan emits exactly one row for each file whose stem has the
\* form of the pattern and none for any other file, whatever the state of the
\* CSV and of the companion file.
C10_OneRowPerMatchingFile ==
    pc = "returned" =>
        /\ \A f \in directory.files :
              Cardinality(RowsOfFile(f)) = IF HasForm(f.stem) THEN 1 ELSE 0
        /\ Len(rows) = Cardinality({f \in directory.files : HasForm(f.stem)})

(***************************************************************************)
(* Properties of __main__ (specification Spec).                            *)
(***************************************************************************)
\* C1: a run whose scan yields no rows prints that no valid file pairs were found
\* and leaves the output file as it was, absent or present, with or without -a.
C1_NoRowsLeavesOutputAlone ==
    (last.ran /\ last.found = 0) =>
        /\ out = last.before
        /\ last.msg = "No valid file pairs found."

\* a run without -a found nothing while a written output file existed
C1_Witness ==
    /\ last.ran /\ last.found = 0 /\ ~last.append
    /\ out.kind = "csv" /\ Len(out.body) >= 2

\* the key of a row of a table, in the order machine, query, threads, repetition
KeyOf(r) == <<r[ColMachine], r[ColQuery], r[ColThreads], r[ColRepetition]>>

\* key a is lexicographically less than or equal to key b
KeyLeq(a, b) ==
    \/ a = b
    \/ \E i \in 1..4 :
          /\ ValueLess(a[i], b[i])
          /\ \A j \in 1..(i - 1) : a[j] = b[j]

\* C3: every written output file is sorted ascending by (machine, query, threads,
\* repetition): of two consecutive rows the earlier has the smaller or equal key.
C3_WrittenTableSorted ==
    out.kind = "csv" =>
        LET t == read_csv(out)
        IN  \A i \in 1..(Len(t.rows) - 1) : KeyLeq(KeyOf(t.rows[i]), KeyOf(t.rows[i + 1]))

\* an appending run put its one new row strictly between rows already in the file
C3_Witness ==
    /\ last.ran /\ last.append /\ last.found = 1
    /\ last.before.kind = "csv" /\ out.kind = "csv"
    /\ Len(last.before.body) >= 2
    /\ Len(out.body) = Len(last.before.body) + 1
    /\ LET t == read_csv(out)
           b == read_csv(last.before)
       IN  /\ KeyOf(t.rows[1]) = KeyOf(b.rows[1])
           /\ KeyOf(t.rows[Len(t.rows)]) = KeyOf(b.rows[Len(b.rows)])
           /\ \E i \in 2..(Len(t.rows) - 1) :
                 /\ KeyOf(t.rows[i]) # KeyOf(t.rows[i - 1])
                 /\ KeyOf(t.rows[i]) # KeyOf(t.rows[i + 1])
                 /\ \A j \in 1..Len(b.rows) : KeyOf(b.rows[j]) # KeyOf(t.rows[i])

\* line i of a CSV text as a mapping from column name to cell text
FileRow(file, i) ==
    [c \in Range(file.header) |->
        file.body[i][CHOOSE j \in 1..Len(file.header) : file.header[j] = c]]

FileRows(file) == {FileRow(file, i) : i \in 1..Len(file.body)}

\* how often row r occurs in the file
Occurs(file, r) == Cardinality({i \in 1..Len(file.body) : FileRow(file, i) = r})

\* the two files have the same columns and hold the same rows equally often
SameTable(f, g) ==
    /\ f.kind = g.kind
    /\ Range(f.header) = Range(g.header)
    /\ Len(f.header) = Len(g.header)
    /\ Len(f.body) = Len(g.body)
    /\ \A r \in FileRows(f) \cup FileRows(g) : Occurs(f, r) = Occurs(g, r)

TwoRunsNoAppend ==
    /\ last.ran /\ prev.ran
    /\ ~last.append /\ ~prev.append
    /\ last.dir = prev.dir

\* C4 (as amended): two runs without -a over the same directory leave output files
\* with the same set of columns and the same rows equally often, whatever the
\* listing orders and whatever the file held before; the second overwrites.
C4_SameRowsAndColumns ==
    TwoRunsNoAppend =>
        IF last.found = 0 THEN out = last.before ELSE SameTable(last.before, out)

\* the two runs wrote files that differ as texts
C4_Witness ==
    /\ TwoRunsNoAppend
    /\ last.found >= 2
    /\ out # last.before
    /\ out.header # last.before.header

\* C4 (as claimed): two runs without -a over the same directory leave identical
\* output, up to the order of the rows.
C4_IdenticalOutput ==
    TwoRunsNoAppend =>
        /\ out.kind = last.before.kind
        /\ out.header = last.before.header
        /\ \A line \in Range(out.body) \cup Range(last.before.body) :
              Cardinality({i \in 1..Len(out.body) : out.body[i] = line})
                  = Cardinality({i \in 1..Len(last.before.body) :
                                    last.before.body[i] = line})

\* a row of a table as a mapping from the columns cols to cell texts
RowText(r, cols) == [c \in cols |-> IF c \in DOMAIN r THEN CellText(r[c]) ELSE <<>>]

\* how often the text of row r over cols occurs among the rows of table t
OccursIn(t, r, cols) ==
    Cardinality({i \in 1..Len(t.rows) : RowText(t.rows[i], cols) = r})

\* the written file is the row-wise union of the table loaded from the file
\* before the run and the new table
AppendIsUnion ==
    (last.ran /\ last.append /\ last.before.kind = "csv" /\ last.found > 0) =>
        LET ex == read_csv(last.before)
            nw == last.new_df
            cols == Range(out.header)
        IN  /\ cols = Range(ex.cols) \cup Range(nw.cols)
            /\ Len(out.body) = Len(ex.rows) + Len(nw.rows)
            /\ \A r \in FileRows(out) :
                  Occurs(out, r) = OccursIn(ex, r, cols) + OccursIn(nw, r, cols)

\* writing a table and appending the same data to it doubles the rows and keeps
\* the columns
RoundTripDoubles ==
    (/\ last.ran /\ prev.ran /\ last.append /\ ~prev.append
     /\ last.dir = prev.dir /\ last.found > 0) =>
        /\ Len(out.body) = 2 * Len(last.before.body)
        /\ Range(out.header) = Range(last.before.header)

\* C2 (as claimed): with -a and a loadable output file the written table is the
\* row-wise union of the existing and the new table, columns unioned, no row
\* dropped or merged; appending the same data to a table just written doubles
\* the row count and leaves the column set unchanged.
C2_AppendUnionAndRoundTrip == AppendIsUnion /\ RoundTripDoubles

====
